---- MODULE Spec2Model ----
(***************************************************************************)
(* echopath: the continuous narrative generation pipeline.                 *)
(*                                                                         *)
(* A text is a sequence of one-character strings.  A JavaScript value is a *)
(* record [kind, val]: kind is "string" (val: its characters), "number"    *)
(* (val: the characters of its literal), "null", "undefined", "object"     *)
(* (val: its members) or "array" (val: its elements).  The outcome of a    *)
(* call is [kind |-> "return", val |-> v] or [kind |-> "throw", error |-> e].*)
(***************************************************************************)
EXTENDS Integers, Sequences, FiniteSets, TLC

-----------------------------------------------------------------------------
(* JavaScript values and call outcomes *)

JSString(chars) == [kind |-> "string", val |-> chars]

JSNumber(chars) == [kind |-> "number", val |-> chars]

JSNull == [kind |-> "null", val |-> <<>>]

JSUndefined == [kind |-> "undefined", val |-> <<>>]

JSArray(elems) == [kind |-> "array", val |-> elems]

JSObject(members) == [kind |-> "object", val |-> members]

Return(v) == [kind |-> "return", val |-> v]

Throw(e) == [kind |-> "throw", error |-> e]

\* Array.isArray
IsArray(v) == v.kind = "array"

\* typeof v === "string"
IsString(v) == v.kind = "string"

\* JavaScript truthiness of the values a response can hold: null, undefined
\* and the empty string are falsy.
Truthy(v) ==
    CASE v.kind \in {"null", "undefined"} -> FALSE
      [] v.kind = "string" -> v.val # <<>>
      [] OTHER -> TRUE

-----------------------------------------------------------------------------
(* String.prototype.trim, String.prototype.slice, String.prototype.match *)

IsWhitespace(c) == c \in {" "}

RECURSIVE TrimStart(_)
TrimStart(s) ==
    IF Len(s) > 0 /\ IsWhitespace(s[1]) THEN TrimStart(Tail(s)) ELSE s

RECURSIVE TrimEnd(_)
TrimEnd(s) ==
    IF Len(s) > 0 /\ IsWhitespace(s[Len(s)])
    THEN TrimEnd(SubSeq(s, 1, Len(s) - 1))
    ELSE s

trim(s) == TrimEnd(TrimStart(s))

\* response?.trim(): undefined for null/undefined, the trimmed string for a
\* string, a TypeError for any other value (it has no trim method).
OptionalTrim(v) ==
    CASE v.kind \in {"null", "undefined"} -> Return(JSUndefined)
      [] v.kind = "string" -> Return(JSString(trim(v.val)))
      [] OTHER -> Throw("TypeError")

Min(a, b) == IF a < b THEN a ELSE b

Max(a, b) == IF a > b THEN a ELSE b

\* s.slice(0, n) in place of s.slice(-n)
SliceLastFromStart(s, n) == SubSeq(s, 1, Min(n, Len(s)))

\* s.slice(-n) for n > 0: the last min(n, |s|) characters of s.
SliceLast(s, n) == SubSeq(s, Max(Len(s) - n, 0) + 1, Len(s))

\* a.slice(-n) in place of a.slice(0, n)
SliceFirstFromEnd(a, n) == SubSeq(a, Len(a) - Min(n, Len(a)) + 1, Len(a))

\* a.slice(0, n) for n >= 0: the first min(n, |a|) elements of a.
SliceFirst(a, n) == SubSeq(a, 1, Min(n, Len(a)))

\* text.match(/\[.*\]/s): the dot matches every character and the star is
\* greedy, so the match runs from the first "[" to the last "]" of the text;
\* null when no "]" follows the first "[".
MatchBrackets(text) ==
    LET opens == {i \in 1..Len(text) : text[i] = "["}
        closes == {i \in 1..Len(text) : text[i] = "]"}
    IN  IF opens = {} THEN [matched |-> FALSE, str |-> <<>>]
        ELSE LET first == CHOOSE i \in opens : \A j \in opens : i <= j
                 after == {i \in closes : i > first}
             IN  IF after = {} THEN [matched |-> FALSE, str |-> <<>>]
                 ELSE LET last == CHOOSE i \in after : \A j \in after : j <= i
                      IN  [matched |-> TRUE, str |-> SubSeq(text, first, last)]

-----------------------------------------------------------------------------
(* JSON.parse, for texts without backslashes, fractions or exponents.  A   *)
(* parse step returns [ok, val, next]: next is the position after the      *)
(* value.                                                                  *)

Digits == {"0", "1", "2", "3", "4", "5", "6", "7", "8", "9"}

ParseFail == [ok |-> FALSE, val |-> JSNull, next |-> 0]

ParseOk(v, n) == [ok |-> TRUE, val |-> v, next |-> n]

RECURSIVE SkipWs(_, _)
SkipWs(s, i) == IF i <= Len(s) /\ s[i] = " " THEN SkipWs(s, i + 1) ELSE i

\* s[i] is the opening quote; the string runs to the next quote.
ParseStringLit(s, i) ==
    LET quotes == {j \in (i + 1)..Len(s) : s[j] = "\""}
    IN  IF quotes = {} THEN ParseFail
        ELSE LET close == CHOOSE j \in quotes : \A k \in quotes : j <= k
             IN  ParseOk(JSString(SubSeq(s, i + 1, close - 1)), close + 1)

RECURSIVE DigitsEnd(_, _)
DigitsEnd(s, i) == IF i <= Len(s) /\ s[i] \in Digits THEN DigitsEnd(s, i + 1) ELSE i

\* s[i] is a digit or "-": -?(0|[1-9][0-9]*)
ParseNumberLit(s, i) ==
    LET start == IF s[i] = "-" THEN i + 1 ELSE i
    IN  IF start > Len(s) \/ s[start] \notin Digits THEN ParseFail
        ELSE LET end == IF s[start] = "0" THEN start + 1 ELSE DigitsEnd(s, start)
             IN  ParseOk(JSNumber(SubSeq(s, i, end - 1)), end)

\* s[i] is "n": the literal null
ParseNullLit(s, i) ==
    IF i + 3 <= Len(s) /\ SubSeq(s, i, i + 3) = <<"n", "u", "l", "l">>
    THEN ParseOk(JSNull, i + 4)
    ELSE ParseFail

RECURSIVE ParseValue(_, _)
RECURSIVE ParseElements(_, _, _)
RECURSIVE ParseMembers(_, _, _)

\* the elements of an array after "[" or ",": i is where the next one starts
ParseElements(s, i, acc) ==
    LET e == ParseValue(s, i)
    IN  IF ~e.ok THEN ParseFail
        ELSE LET j == SkipWs(s, e.next)
             IN  IF j > Len(s) THEN ParseFail
                 ELSE IF s[j] = "," THEN ParseElements(s, j + 1, Append(acc, e.val))
                 ELSE IF s[j] = "]" THEN ParseOk(JSArray(Append(acc, e.val)), j + 1)
                 ELSE ParseFail

\* the members of an object after "{" or ",": i is where the next key starts
ParseMembers(s, i, acc) ==
    LET k == SkipWs(s, i)
    IN  IF k > Len(s) \/ s[k] # "\"" THEN ParseFail
        ELSE LET key == ParseStringLit(s, k)
                 c == IF key.ok THEN SkipWs(s, key.next) ELSE 0
             IN  IF ~key.ok \/ c > Len(s) \/ s[c] # ":" THEN ParseFail
                 ELSE LET v == ParseValue(s, c + 1)
                          j == IF v.ok THEN SkipWs(s, v.next) ELSE 0
                          m == [key |-> key.val, value |-> v.val]
                      IN  IF ~v.ok \/ j > Len(s) THEN ParseFail
                          ELSE IF s[j] = "," THEN ParseMembers(s, j + 1, Append(acc, m))
                          ELSE IF s[j] = "}" THEN ParseOk(JSObject(Append(acc, m)), j + 1)
                          ELSE ParseFail

ParseValue(s, i) ==
    LET j == SkipWs(s, i)
    IN  IF j > Len(s) THEN ParseFail
        ELSE CASE s[j] = "\"" -> ParseStringLit(s, j)
               [] s[j] \in Digits \cup {"-"} -> ParseNumberLit(s, j)
               [] s[j] = "n" -> ParseNullLit(s, j)
               [] s[j] = "[" ->
                    LET k == SkipWs(s, j + 1)
                    IN  IF k <= Len(s) /\ s[k] = "]"
                        THEN ParseOk(JSArray(<<>>), k + 1)
                        ELSE ParseElements(s, j + 1, <<>>)
               [] s[j] = "{" ->
                    LET k == SkipWs(s, j + 1)
                    IN  IF k <= Len(s) /\ s[k] = "}"
                        THEN ParseOk(JSObject(<<>>), k + 1)
                        ELSE ParseMembers(s, j + 1, <<>>)
               [] OTHER -> ParseFail

\* JSON.parse(s): the value, or a SyntaxError when s is not one JSON text
JSONParse(s) ==
    LET r == ParseValue(s, 1)
    IN  IF r.ok /\ SkipWs(s, r.next) > Len(s)
        THEN Return(r.val)
        ELSE Throw("SyntaxError")

-----------------------------------------------------------------------------
(* Constants of the narration service and of the route planner *)

TARGET_SEGMENT_DURATION_SEC == 60

WORDS_PER_MINUTE == 145

\* Math.round((TARGET_SEGMENT_DURATION_SEC / 60) * WORDS_PER_MINUTE)
WORDS_PER_SEGMENT ==
    (2 * TARGET_SEGMENT_DURATION_SEC * WORDS_PER_MINUTE + 60) \div 120

\* the planner's limit: "4 hours limit (14400 seconds)"
MAX_JOURNEY_SEC == 14400

\* previousContext.slice(-1500)
CONTEXT_CHARS == 1500

\* the string pushed onto an outline that is too short
PAD_OUTLINE ==
    <<"C", "o", "n", "t", "i", "n", "u", "e", " ", "t", "h", "e", " ", "j",
      "o", "u", "r", "n", "e", "y", " ", "t", "o", "w", "a", "r", "d", "s",
      " ", "t", "h", "e", " ", "d", "e", "s", "t", "i", "n", "a", "t", "i",
      "o", "n", ".">>

\* the string that fills the fallback outline
FALLBACK_OUTLINE ==
    <<"C", "o", "n", "t", "i", "n", "u", "e", " ", "t", "h", "e", " ", "i",
      "m", "m", "e", "r", "s", "i", "v", "e", " ", "n", "a", "r", "r", "a",
      "t", "i", "v", "e", " ", "o", "f", " ", "t", "h", "e", " ", "j", "o",
      "u", "r", "n", "e", "y", ".">>

\* A duration is a count of ticks, TicksPerSec ticks to the second, so that
\* the fractional durations the routing service reports are covered.
TicksPerSec == 2

-----------------------------------------------------------------------------
(* Segment sizing and style instructions *)

\* Math.ceil(a / b) for a >= 0, b > 0
Ceil(a, b) == (a + b - 1) \div b

\* Math.floor(a / b) for a >= 0, b > 0
Floor(a, b) == a \div b

\* Math.floor in place of Math.ceil
calculateTotalSegmentsFloor(durationTicks) ==
    Max(1, Floor(durationTicks, TARGET_SEGMENT_DURATION_SEC * TicksPerSec))

\* Math.max(1, Math.ceil(durationSeconds / TARGET_SEGMENT_DURATION_SEC))
calculateTotalSegments(durationTicks) ==
    Max(1, Ceil(durationTicks, TARGET_SEGMENT_DURATION_SEC * TicksPerSec))

\* the instruction strings, the dash of the first written as two hyphens
STYLE_NOIR == "Style: Noir Thriller. Gritty, cynical, atmospheric. Use inner monologue. The traveler is a detective or someone with a troubled past. The city is a character itself--dark, rainy, hiding secrets. Use metaphors of shadows, smoke, and cold neon."

STYLE_CHILDREN == "Style: Children's Story. Whimsical, magical, full of wonder and gentle humor. The world is bright and alive; maybe inanimate objects (like traffic lights or trees) have slight personalities. Simple but evocative language. A sense of delightful discovery."

STYLE_HISTORICAL == "Style: Historical Epic. Grandiose, dramatic, and timeless. Treat the journey as a significant pilgrimage or quest in a bygone era (even though it's modern day, overlay it with historical grandeur). Use slightly archaic but understandable language. Focus on endurance, destiny, and the weight of history."

STYLE_FANTASY == "Style: Fantasy Adventure. Heroic, mystical, and epic. The real world is just a veil over a magical realm. Streets are ancient paths, buildings are towers or ruins. The traveler is on a vital quest. Use metaphors of magic, mythical creatures (shadows might be lurking beasts), and destiny."

STYLE_DEFAULT == "Style: Immersive, 'in the moment' narration. Focus on the sensation of movement and the immediate environment."

\* a switch whose FANTASY case falls through to the default
getStyleInstructionFallThrough(style) ==
    CASE style = "NOIR" -> STYLE_NOIR
      [] style = "CHILDREN" -> STYLE_CHILDREN
      [] style = "HISTORICAL" -> STYLE_HISTORICAL
      [] OTHER -> STYLE_DEFAULT

getStyleInstruction(style) ==
    CASE style = "NOIR" -> STYLE_NOIR
      [] style = "CHILDREN" -> STYLE_CHILDREN
      [] style = "HISTORICAL" -> STYLE_HISTORICAL
      [] style = "FANTASY" -> STYLE_FANTASY
      [] OTHER -> STYLE_DEFAULT

-----------------------------------------------------------------------------
(* The chat-completion request *)

DEFAULT_MODEL == "qwen/qwen3-32b"

\* The outcomes of the HTTP exchange: fetch rejects; or a response arrives,
\* ok or not, whose body is not JSON or is JSON with a list of choices, each
\* reduced to its message.content.
HttpReject == [kind |-> "reject", ok |-> FALSE, body |-> [kind |-> "none", choices |-> <<>>]]

HttpResponse(ok, body) == [kind |-> "response", ok |-> ok, body |-> body]

BodyInvalid == [kind |-> "invalid", choices |-> <<>>]

BodyJson(choices) == [kind |-> "json", choices |-> choices]

\* a message list that opens with a system message
UserMessagesWithSystem(prompt) ==
    <<[role |-> "system", content |-> prompt], [role |-> "user", content |-> prompt]>>

\* the one user message both generators send
UserMessages(prompt) == <<[role |-> "user", content |-> prompt]>>

\* the POST request makeHackClubRequest issues
ChatRequest(messages, model) ==
    [model |-> model, messages |-> messages, temperature |-> 1, max_tokens |-> 2000]

\* what makeHackClubRequest returns or throws once the exchange is over
makeHackClubRequest(http) ==
    CASE http.kind = "reject" -> Throw("NetworkError")
      [] ~http.ok -> Throw("Hack Club API error")
      [] http.body.kind # "json" -> Throw("SyntaxError")
      [] Len(http.body.choices) = 0 -> Throw("TypeError")
      [] OTHER -> Return(http.body.choices[1])

-----------------------------------------------------------------------------
(* generateStoryOutline *)

\* route.travelMode.toLowerCase()
ToLowerCase(travelMode) ==
    CASE travelMode = "WALKING" -> "walking"
      [] travelMode = "DRIVING" -> "driving"
      [] OTHER -> travelMode

\* the template's interpolated values
OutlinePrompt(route, totalSegments) ==
    [ kind |-> "outline",
      chapters |-> totalSegments,
      startAddress |-> route.startAddress,
      endAddress |-> route.endAddress,
      travelMode |-> ToLowerCase(route.travelMode),
      duration |-> route.duration,
      segmentsNeeded |-> totalSegments,
      styleInstruction |-> getStyleInstruction(route.storyStyle) ]

\* Array(n).fill(v)
Fill(n, v) == [i \in 1..n |-> v]

\* an outline left as short as the model made it
PadOutlineNever(outline, totalSegments) == outline

\* padding with the fallback's string in place of the pushed one
RECURSIVE PadOutlineWithFallback(_, _)
PadOutlineWithFallback(outline, totalSegments) ==
    IF Len(outline) < totalSegments
    THEN PadOutlineWithFallback(Append(outline, JSString(FALLBACK_OUTLINE)), totalSegments)
    ELSE outline

\* while (outline.length < totalSegments) outline.push(PAD_OUTLINE)
RECURSIVE PadOutline(_, _)
PadOutline(outline, totalSegments) ==
    IF Len(outline) < totalSegments
    THEN PadOutline(Append(outline, JSString(PAD_OUTLINE)), totalSegments)
    ELSE outline

\* the try block, from the resolved request to the return of finalOutline
OutlineTry(response, totalSegments) ==
    IF response.kind = "throw" THEN response
    ELSE LET text == OptionalTrim(response.val)
         IN  IF text.kind = "throw" THEN text
             ELSE IF ~Truthy(text.val) THEN Throw("No outline generated.")
             ELSE LET jsonMatch == MatchBrackets(text.val.val)
                      jsonString == IF jsonMatch.matched THEN jsonMatch.str
                                    ELSE text.val.val
                      parsed == JSONParse(jsonString)
                  IN  IF parsed.kind = "throw" THEN parsed
                      ELSE IF ~IsArray(parsed.val) \/ Len(parsed.val.val) = 0
                      THEN Throw("Invalid outline format received.")
                      ELSE Return(SliceFirst(PadOutline(parsed.val.val, totalSegments),
                                             totalSegments))

\* a catch block that hands the error on, as generateSegment's does
generateStoryOutlineRethrow(response, totalSegments) ==
    OutlineTry(response, totalSegments)

\* the outline, or the fallback outline when the try block threw
generateStoryOutline(response, totalSegments) ==
    LET try == OutlineTry(response, totalSegments)
    IN  IF try.kind = "throw"
        THEN Return(Fill(totalSegments, JSString(FALLBACK_OUTLINE)))
        ELSE try

-----------------------------------------------------------------------------
(* generateSegment and generateSegmentAudio *)

NoContext == [present |-> FALSE, context |-> <<>>]

\* contextPrompt: empty for the first segment, else the block around
\* previousContext.slice(-1500)
ContextPrompt(segmentIndex, previousContext) ==
    IF segmentIndex = 1
    THEN NoContext
    ELSE [present |-> TRUE, context |-> SliceLast(previousContext, CONTEXT_CHARS)]

\* the template's interpolated values
SegmentPrompt(route, segmentIndex, totalSegmentsEstimate, segmentOutline, previousContext) ==
    [ kind |-> "segment",
      startAddress |-> route.startAddress,
      endAddress |-> route.endAddress,
      travelMode |-> ToLowerCase(route.travelMode),
      segmentIndex |-> segmentIndex,
      totalSegmentsEstimate |-> totalSegmentsEstimate,
      styleInstruction |-> getStyleInstruction(route.storyStyle),
      chapterGoal |-> segmentOutline,
      contextPrompt |-> ContextPrompt(segmentIndex, previousContext),
      seconds |-> TARGET_SEGMENT_DURATION_SEC,
      words |-> WORDS_PER_SEGMENT ]

NoAudio == [present |-> FALSE, channels |-> 0, sampleRate |-> 0, centiSeconds |-> 0]

\* the try block: the Segment, or the error of the request or of the check
SegmentTry(response, segmentIndex) ==
    IF response.kind = "throw" THEN response
    ELSE LET text == OptionalTrim(response.val)
         IN  IF text.kind = "throw" THEN text
             ELSE IF ~Truthy(text.val) THEN Throw("No text generated for segment.")
             ELSE Return([index |-> segmentIndex, text |-> text.val.val,
                          audioBuffer |-> NoAudio])

\* a catch block that masks the error with the generic text, as
\* generateStoryOutline's does
generateSegmentMasking(response, segmentIndex) ==
    LET try == SegmentTry(response, segmentIndex)
    IN  IF try.kind = "throw"
        THEN Return([index |-> segmentIndex, text |-> FALLBACK_OUTLINE,
                     audioBuffer |-> NoAudio])
        ELSE try

\* a Segment numbered from zero
generateSegmentFromZero(response, segmentIndex) ==
    LET try == SegmentTry(response, segmentIndex)
    IN  IF try.kind = "throw" THEN Throw(try.error)
        ELSE Return([try.val EXCEPT !.index = segmentIndex - 1])

\* the Segment, or the error thrown again by the catch block
generateSegment(response, segmentIndex) ==
    LET try == SegmentTry(response, segmentIndex)
    IN  IF try.kind = "throw" THEN Throw(try.error) ELSE try

\* A silent buffer of one channel at 24000 Hz lasting 0.08 s per character of
\* text; createBuffer throws for a buffer of no frames or a context that
\* cannot allocate (contextOk false), and the catch block throws it again.
generateSegmentAudio(text, contextOk) ==
    IF ~contextOk \/ Len(text) = 0
    THEN Throw("NotSupportedError")
    ELSE Return([present |-> TRUE, channels |-> 1, sampleRate |-> 24000,
                 centiSeconds |-> 8 * Len(text)])

-----------------------------------------------------------------------------
(* Bounds of the model *)

\* the longest confirmed journey of the pipeline runs, in segments
MaxSegments == 3

\* the longest array the model's outline reply holds
MaxModelOutline == 4

\* the longest route duration the routing service reports, in seconds
MaxRouteSec == 14520

\* the longest prior narration handed to generateSegment, in characters
MaxContextLen == 2000

\* how often the orchestrator asks again for a segment's text
MaxRetries == 1

\* audio syntheses under way at once
MaxSynthInFlight == 2

\* distinct chat-completion requests a run of the free-standing generators issues
MaxRequests == 3

-----------------------------------------------------------------------------
(* State *)

VARIABLES
    form,          \* RoutePlanner: startAddress, endAddress, travelMode, selectedStyle
    error,         \* RoutePlanner: the error shown, or "null"
    isLoading,     \* RoutePlanner: a calculation is under way
    plannerPc,     \* RoutePlanner: where handleCalculate is, Idle or AwaitingWith(form)
    journey,       \* the RouteDetails handed to onRouteFound, or NoJourney
    phase,         \* orchestrator: IDLE, OUTLINING, GENERATING, COMPLETE, ABORTED
    totalSegments, \* orchestrator: the journey's segment count
    outline,       \* orchestrator: the journey's outline
    segments,      \* the Segment sequence the consumer sees
    observed,      \* the indices of the Segments in the order the consumer got them
    synthesizing,  \* positions of the segments whose audio is being synthesized
    attempts,      \* orchestrator: failed text requests for the current segment
    call,          \* the generator call suspended at its request, or NoCall
    requests,      \* the distinct chat-completion requests sent so far, each with its call
    fetches,       \* how many times the last generator call has called fetch
    response,      \* what makeHackClubRequest gave the last resumed call
    result,        \* the outcome of the last generator call, until it is taken
    sized          \* the last duration sized on its own, with its segment count

plannerVars == <<form, error, isLoading, plannerPc>>

orchVars == <<journey, phase, totalSegments, outline, segments, observed, synthesizing, attempts>>

genVars == <<call, requests, fetches, response, result>>

vars == <<form, error, isLoading, plannerPc, journey, phase, totalSegments, outline, segments, observed, synthesizing, attempts, call, requests, fetches, response, result, sized>>

NULL == "null"

\* handleCalculate is not running, or waits with the mode and style of its click
AwaitingWith(f) == [at |-> "awaiting", travelMode |-> f.travelMode, selectedStyle |-> f.selectedStyle]

Idle == [at |-> "idle", travelMode |-> "", selectedStyle |-> ""]

NoJourney == [present |-> FALSE]

NoCall == [fn |-> "none"]

NoResult == [fn |-> "none"]

NoResponse == [kind |-> "none"]

NoSized == [present |-> FALSE, durationTicks |-> 0, segments |-> 0]

\* the state after the components are constructed
Init ==
    /\ form = [startAddress |-> "", endAddress |-> "", travelMode |-> "WALKING",
               selectedStyle |-> "NOIR"]
    /\ error = NULL
    /\ isLoading = FALSE
    /\ plannerPc = Idle
    /\ journey = NoJourney
    /\ phase = "IDLE"
    /\ totalSegments = 0
    /\ outline = <<>>
    /\ segments = <<>>
    /\ observed = <<>>
    /\ synthesizing = {}
    /\ attempts = 0
    /\ call = NoCall
    /\ requests = {}
    /\ fetches = 0
    /\ response = NoResponse
    /\ result = NoResult
    /\ sized = NoSized

-----------------------------------------------------------------------------
(* RoutePlanner *)

\* hours and minutes of a duration, as handleCalculate formats them
DurationText(durationTicks) ==
    LET hours == Floor(durationTicks, 3600 * TicksPerSec)
        minutes == Floor(durationTicks % (3600 * TicksPerSec), 60 * TicksPerSec)
    IN  [withHours |-> hours > 0, hours |-> hours, minutes |-> minutes]

\* (distance / 1000).toFixed(1) + " km", as tenths of a kilometre
DistanceText(distanceMetres) == [tenthsOfKm |-> (distanceMetres + 50) \div 100]

\* appState > AppState.ROUTE_CONFIRMED: generation has started
isLocked == phase # "IDLE"

\* what the user can put into the form
FormValues ==
    [startAddress : {"", "Main St 1"}, endAddress : {"", "Dock Rd 9"},
     travelMode : {"WALKING", "DRIVING"},
     selectedStyle : {"NOIR", "CHILDREN", "HISTORICAL", "FANTASY"}]

\* what geocodeAddress resolves to: null, or the place found
Geocodes(name) == {[found |-> FALSE, display_name |-> ""], [found |-> TRUE, display_name |-> name]}

\* what calculateRoute resolves to: null, or the first route, its duration in
\* ticks and its distance in metres
Routes(durations) ==
    {[found |-> FALSE, duration |-> 0, distance |-> 0]}
        \cup {[found |-> TRUE, duration |-> d, distance |-> 1250] : d \in durations}

\* the durations of the pipeline runs: just under each whole number of
\* segments, and one just over the planner's limit
PipelineDurations ==
    {n * TARGET_SEGMENT_DURATION_SEC * TicksPerSec - 1 : n \in 1..MaxSegments}
        \cup {MAX_JOURNEY_SEC * TicksPerSec + 1}

\* every duration up to MaxRouteSec
AllDurations == 0..(MaxRouteSec * TicksPerSec)

\* the user edits the inputs, the travel mode or the style; the user is taken
\* to leave the form alone while a calculation is under way
EditFormTo(values) ==
    /\ ~isLocked
    /\ plannerPc.at = "idle"
    /\ \E f \in values : form' = f
    /\ form' # form
    /\ UNCHANGED <<error, isLoading, plannerPc, orchVars, genVars, sized>>

\* the planner with every form
EditForm == EditFormTo(FormValues)

\* the pipeline runs: a walk in the fantasy style
EditFormRun ==
    EditFormTo({f \in FormValues : f.travelMode = "WALKING" /\ f.selectedStyle = "FANTASY"})

\* handleCalculate, from the click to its first await
HandleCalculateBegin ==
    /\ plannerPc.at = "idle"
    /\ ~(isLoading \/ isLocked \/ form.startAddress = "" \/ form.endAddress = "")
    /\ LET finalStart == form.startAddress
           finalEnd == form.endAddress
       IN  IF finalStart = "" \/ finalEnd = ""
           THEN /\ error' = "Please enter both a start and end location."
                /\ UNCHANGED <<isLoading, plannerPc>>
           ELSE /\ error' = NULL
                /\ isLoading' = TRUE
                /\ plannerPc' = AwaitingWith(form)
    /\ UNCHANGED <<form, orchVars, genVars, sized>>

\* the RouteDetails handleCalculate builds
RouteDetails(startCoords, endCoords, route, travelMode, selectedStyle) ==
    [ present |-> TRUE,
      startAddress |-> startCoords.display_name,
      endAddress |-> endCoords.display_name,
      distance |-> DistanceText(route.distance),
      duration |-> DurationText(route.duration),
      durationSeconds |-> route.duration,
      travelMode |-> travelMode,
      voiceName |-> "Kore",
      storyStyle |-> selectedStyle ]

\* a limit check that lets every route through
TooLongNever(duration) == FALSE

\* duration > 14400
TooLong(duration) == duration > MAX_JOURNEY_SEC * TicksPerSec

\* onRouteFound: the journey is confirmed, sized, and outlining starts
OnRouteFound(details) ==
    /\ journey' = details
    /\ totalSegments' = calculateTotalSegments(details.durationSeconds)
    /\ phase' = "OUTLINING"
    /\ UNCHANGED <<outline, segments, observed, synthesizing, attempts>>

\* handleCalculate, from its first await to its end
HandleCalculateResume(startCoords, endCoords, route) ==
    /\ plannerPc.at = "awaiting"
    /\ plannerPc' = Idle
    /\ isLoading' = FALSE
    /\ IF ~startCoords.found \/ ~endCoords.found
       THEN /\ error' = "Could not find one or both locations. Please check the addresses and try again."
            /\ UNCHANGED orchVars
       ELSE IF ~route.found
       THEN /\ error' = "Could not calculate route between these locations. Please try different locations."
            /\ UNCHANGED orchVars
       ELSE IF TooLong(route.duration)
       THEN /\ error' = "Sorry, this journey is too long. Please select a route under 4 hours."
            /\ UNCHANGED orchVars
       ELSE /\ UNCHANGED error
            /\ OnRouteFound(RouteDetails(startCoords, endCoords, route,
                                         plannerPc.travelMode, plannerPc.selectedStyle))
    /\ UNCHANGED <<form, genVars, sized>>

HandleCalculateResumeOver(durations) ==
    /\ plannerPc.at = "awaiting"
    /\ \E startCoords \in Geocodes("Main Street 1, Springfield"),
          endCoords \in Geocodes("Dock Road 9, Springfield"),
          route \in Routes(durations) :
            HandleCalculateResume(startCoords, endCoords, route)

\* the planner with the routing service reporting any duration
HandleCalculateResumeAny == HandleCalculateResumeOver(AllDurations)

\* the planner in the pipeline runs
HandleCalculateResumeRun == HandleCalculateResumeOver(PipelineDurations)

\* the Segment Sizing Calculator applied to a duration on its own
SizeDuration ==
    /\ ~sized.present
    /\ \E d \in AllDurations :
        sized' = [present |-> TRUE, durationTicks |-> d,
                  segments |-> calculateTotalSegments(d)]
    /\ UNCHANGED <<plannerVars, orchVars, genVars>>

NextSizing == SizeDuration

SpecSizing == Init /\ [][NextSizing]_vars

NextPlanner == EditForm \/ HandleCalculateBegin \/ HandleCalculateResumeAny

SpecPlanner == Init /\ [][NextPlanner]_vars

-----------------------------------------------------------------------------
(* The generators as suspended calls: a call sends its request and waits;  *)
(* when the exchange is over it resumes and leaves its outcome in result.  *)

GenerateStoryOutlineCall(route, segmentCount) ==
    /\ call.fn = "none"
    /\ call' = [fn |-> "generateStoryOutline", route |-> route,
                totalSegments |-> segmentCount]
    /\ requests' = requests \cup {[by |-> call', request |->
            ChatRequest(UserMessages(OutlinePrompt(route, segmentCount)), DEFAULT_MODEL)]}
    /\ fetches' = 1
    /\ UNCHANGED <<response, result>>

GenerateStoryOutlineResume(http) ==
    /\ call.fn = "generateStoryOutline"
    /\ response' = makeHackClubRequest(http)
    /\ result' = [fn |-> call.fn, args |-> call,
                  outcome |-> generateStoryOutline(response', call.totalSegments)]
    /\ call' = NoCall
    /\ UNCHANGED <<requests, fetches>>

GenerateSegmentCall(route, segmentIndex, totalSegmentsEstimate, segmentOutline, previousContext) ==
    /\ call.fn = "none"
    /\ call' = [fn |-> "generateSegment", route |-> route,
                segmentIndex |-> segmentIndex,
                totalSegmentsEstimate |-> totalSegmentsEstimate,
                segmentOutline |-> segmentOutline,
                previousContext |-> previousContext]
    /\ requests' = requests \cup {[by |-> call', request |->
            ChatRequest(UserMessages(SegmentPrompt(route, segmentIndex,
                totalSegmentsEstimate, segmentOutline, previousContext)), DEFAULT_MODEL)]}
    /\ fetches' = 1
    /\ UNCHANGED <<response, result>>

GenerateSegmentResume(http) ==
    /\ call.fn = "generateSegment"
    /\ response' = makeHackClubRequest(http)
    /\ result' = [fn |-> call.fn, args |-> call,
                  outcome |-> generateSegment(response', call.segmentIndex)]
    /\ call' = NoCall
    /\ UNCHANGED <<requests, fetches>>

-----------------------------------------------------------------------------
(* What the chat-completion service can answer *)

\* the characters of a JSON array text with the given element texts
RECURSIVE JoinElements(_)
JoinElements(texts) ==
    IF Len(texts) = 0 THEN <<>>
    ELSE IF Len(texts) = 1 THEN texts[1]
    ELSE texts[1] \o <<",">> \o JoinElements(Tail(texts))

ArrayText(texts) == <<"[">> \o JoinElements(texts) \o <<"]">>

\* element texts: two strings, a number, null, an object, a nested array
ElementTexts ==
    { <<"\"", "a", "\"">>, <<"\"", "b", "\"">>, <<"1">>, <<"n", "u", "l", "l">>,
      <<"{", "}">>, <<"[", "\"", "a", "\"", "]">> }

\* every array of up to MaxModelOutline such elements
ArrayTexts ==
    UNION {{ArrayText(es) : es \in [1..k -> ElementTexts]} : k \in 0..MaxModelOutline}

\* texts that are no array: nothing, blanks, prose, a JSON string, a number,
\* an object, an array with a trailing comma, an array left open
OtherTexts ==
    { <<>>, <<" ">>, <<"a", " ", "b">>, <<"\"", "a", "\"">>, <<"1">>,
      <<"{", "\"", "a", "\"", ":", "1", "}">>,
      <<"[", "\"", "a", "\"", ",", "]">>, <<"[", "\"", "a", "\"">> }

\* what the model puts before the text: nothing, or prose after a blank; and
\* after it: nothing, a blank, or a note in brackets
Prefixes == { <<>>, <<" ", "a", ":", " ">> }

Suffixes == { <<>>, <<" ">>, <<" ", "[", "1", "]">> }

OutlineTexts ==
    {p \o b \o s : p \in Prefixes, b \in ArrayTexts \cup OtherTexts, s \in Suffixes}

\* the exchanges that end without a message
FailedExchanges ==
    { HttpReject, HttpResponse(FALSE, BodyInvalid), HttpResponse(TRUE, BodyInvalid),
      HttpResponse(TRUE, BodyJson(<<>>)) }

\* the exchanges that end with a message of the given content
Answers(contents) == {HttpResponse(TRUE, BodyJson(<<c>>)) : c \in contents}

\* message contents that are no string
NonTextContents == {JSNull, JSUndefined, JSNumber(<<"1">>)}

\* every exchange of an outline request
OutlineExchanges ==
    FailedExchanges \cup Answers(NonTextContents \cup {JSString(t) : t \in OutlineTexts})

\* the outline exchanges of the pipeline runs: no answer, an array of two
\* with a number in it, an array of four strings
RunOutlineExchanges ==
    {HttpReject} \cup Answers({JSString(ArrayText(es)) :
        es \in { <<<<"\"", "a", "\"">>, <<"1">>>>,
                 <<<<"\"", "a", "\"">>, <<"\"", "b", "\"">>, <<"\"", "a", "\"">>, <<"\"", "b", "\"">>>> }})

\* narration texts: nothing, blanks, and words with and without blanks around
SegmentTexts ==
    { <<>>, <<" ">>, <<" ", " ">>, <<"w">>, <<" ", "w">>, <<"w", " ">>,
      <<" ", "w", " ", "v", " ">>, <<"w", " ", "v">> }

\* every exchange of a segment request
SegmentExchanges ==
    FailedExchanges \cup Answers(NonTextContents \cup {JSString(t) : t \in SegmentTexts})

\* the segment exchanges of the pipeline runs
RunSegmentExchanges ==
    {HttpReject} \cup Answers({JSString(<<" ">>), JSString(<<"w", " ">>)})

Letters ==
    <<"a", "b", "c", "d", "e", "f", "g", "h", "i", "j", "k", "l", "m",
      "n", "o", "p", "q", "r", "s", "t", "u", "v", "w", "x", "y", "z">>

\* a narration of n characters, the alphabet over and over
Narration(n) == [i \in 1..n |-> Letters[((i - 1) % 26) + 1]]

\* the style selectors: the four of the planner, and two it never sends
AllStyles == {"NOIR", "CHILDREN", "HISTORICAL", "FANTASY", "DEFAULT", "WESTERN"}

-----------------------------------------------------------------------------
(* The generators called on their own, with arguments from bounded sets *)

\* a confirmed journey of n segments
JourneyOfSegments(n, style) ==
    RouteDetails([found |-> TRUE, display_name |-> "Main Street 1, Springfield"],
                 [found |-> TRUE, display_name |-> "Dock Road 9, Springfield"],
                 [found |-> TRUE,
                  duration |-> n * TARGET_SEGMENT_DURATION_SEC * TicksPerSec - 1,
                  distance |-> 1250],
                 "WALKING", style)

\* chapter goals: a summary, and the padding string
ChapterGoals == {JSString(<<"a">>), JSString(PAD_OUTLINE)}

OutlineCallFree ==
    /\ requests = {}
    /\ \E n \in 1..MaxSegments :
        GenerateStoryOutlineCall(JourneyOfSegments(n, "FANTASY"), n)
    /\ UNCHANGED <<plannerVars, orchVars, sized>>

OutlineResumeFree ==
    /\ call.fn = "generateStoryOutline"
    /\ \E http \in OutlineExchanges : GenerateStoryOutlineResume(http)
    /\ UNCHANGED <<plannerVars, orchVars, sized>>

NextOutline == OutlineCallFree \/ OutlineResumeFree

SpecOutline == Init /\ [][NextOutline]_vars

SegmentCallFree ==
    /\ requests = {}
    /\ \E i \in 1..MaxSegments, goal \in ChapterGoals, n \in {0, 3} :
        GenerateSegmentCall(JourneyOfSegments(MaxSegments, "NOIR"), i, MaxSegments,
                            goal, Narration(n))
    /\ UNCHANGED <<plannerVars, orchVars, sized>>

SegmentResumeFree ==
    /\ call.fn = "generateSegment"
    /\ \E http \in SegmentExchanges : GenerateSegmentResume(http)
    /\ UNCHANGED <<plannerVars, orchVars, sized>>

NextSegment == SegmentCallFree \/ SegmentResumeFree

SpecSegment == Init /\ [][NextSegment]_vars

\* generateSegment for the first and for a later segment, with prior
\* narrations of every length up to MaxContextLen
ContextCallFree ==
    /\ requests = {}
    /\ \E i \in {1, MaxSegments}, n \in 0..MaxContextLen :
        GenerateSegmentCall(JourneyOfSegments(MaxSegments, "NOIR"), i, MaxSegments,
                            JSString(<<"a">>), Narration(n))
    /\ UNCHANGED <<plannerVars, orchVars, sized>>

ContextResumeFree ==
    /\ call.fn = "generateSegment"
    /\ \E http \in {HttpReject} \cup Answers({JSString(<<"w", " ">>)}) :
        GenerateSegmentResume(http)
    /\ UNCHANGED <<plannerVars, orchVars, sized>>

NextContext == ContextCallFree \/ ContextResumeFree

SpecContext == Init /\ [][NextContext]_vars

\* up to MaxRequests calls of either generator with any style selector
StyleOutlineCallFree ==
    /\ Cardinality(requests) < MaxRequests
    /\ \E style \in AllStyles :
        GenerateStoryOutlineCall(JourneyOfSegments(1, style), 1)
    /\ UNCHANGED <<plannerVars, orchVars, sized>>

StyleSegmentCallFree ==
    /\ Cardinality(requests) < MaxRequests
    /\ \E style \in AllStyles :
        GenerateSegmentCall(JourneyOfSegments(1, style), 1, 1, JSString(<<"a">>), <<>>)
    /\ UNCHANGED <<plannerVars, orchVars, sized>>

StyleOutlineResumeFree ==
    /\ call.fn = "generateStoryOutline"
    /\ \E http \in {HttpReject} : GenerateStoryOutlineResume(http)
    /\ UNCHANGED <<plannerVars, orchVars, sized>>

StyleSegmentResumeFree ==
    /\ call.fn = "generateSegment"
    /\ \E http \in Answers({JSString(<<"w">>)}) : GenerateSegmentResume(http)
    /\ UNCHANGED <<plannerVars, orchVars, sized>>

NextStyle ==
    \/ StyleOutlineCallFree
    \/ StyleSegmentCallFree
    \/ StyleOutlineResumeFree
    \/ StyleSegmentResumeFree

SpecStyle == Init /\ [][NextStyle]_vars

-----------------------------------------------------------------------------
(* Both generators called again and again, as a caller that retries does *)

RequestOutlineCallFree ==
    /\ Cardinality(requests) < MaxRequests
    /\ \E n \in {1, MaxSegments} :
        GenerateStoryOutlineCall(JourneyOfSegments(n, "NOIR"), n)
    /\ UNCHANGED <<plannerVars, orchVars, sized>>

RequestSegmentCallFree ==
    /\ Cardinality(requests) < MaxRequests
    /\ \E i \in {1, MaxSegments}, n \in {0, 2} :
        GenerateSegmentCall(JourneyOfSegments(MaxSegments, "NOIR"), i, MaxSegments,
                            JSString(<<"a">>), Narration(n))
    /\ UNCHANGED <<plannerVars, orchVars, sized>>

RequestOutlineResumeFree ==
    /\ call.fn = "generateStoryOutline"
    /\ \E http \in {HttpReject, HttpResponse(FALSE, BodyInvalid)}
                   \cup Answers({JSString(ArrayText(<<<<"\"", "a", "\"">>>>))}) :
        GenerateStoryOutlineResume(http)
    /\ UNCHANGED <<plannerVars, orchVars, sized>>

RequestSegmentResumeFree ==
    /\ call.fn = "generateSegment"
    /\ \E http \in {HttpReject, HttpResponse(TRUE, BodyJson(<<>>))}
                   \cup Answers({JSString(<<" ">>), JSString(<<"w">>)}) :
        GenerateSegmentResume(http)
    /\ UNCHANGED <<plannerVars, orchVars, sized>>

NextRequests ==
    \/ RequestOutlineCallFree
    \/ RequestSegmentCallFree
    \/ RequestOutlineResumeFree
    \/ RequestSegmentResumeFree

SpecRequests == Init /\ [][NextRequests]_vars

-----------------------------------------------------------------------------
(* The Pipeline Orchestrator: outline once, then text generation segment   *)
(* by segment, audio synthesis of a finished segment alongside the text of *)
(* the next; a failed stage is retried, substituted or ends the run.       *)

StartOutline ==
    /\ phase = "OUTLINING"
    /\ result.fn = "none"
    /\ GenerateStoryOutlineCall(journey, totalSegments)
    /\ UNCHANGED <<plannerVars, orchVars, sized>>

OutlineArrives ==
    /\ call.fn = "generateStoryOutline"
    /\ \E http \in RunOutlineExchanges : GenerateStoryOutlineResume(http)
    /\ UNCHANGED <<plannerVars, orchVars, sized>>

\* the outline gates all segment generation; an outline call that threw
\* would end the run
TakeOutline ==
    /\ phase = "OUTLINING"
    /\ result.fn = "generateStoryOutline"
    /\ IF result.outcome.kind = "return"
       THEN /\ outline' = result.outcome.val
            /\ phase' = "GENERATING"
       ELSE /\ phase' = "ABORTED"
            /\ UNCHANGED outline
    /\ result' = NoResult
    /\ response' = NoResponse
    /\ UNCHANGED <<plannerVars, journey, totalSegments, segments, observed,
                   synthesizing, attempts, call, requests, fetches, sized>>

\* the text of segment i is asked for once the text of segment i-1 exists
StartSegment ==
    /\ phase = "GENERATING"
    /\ result.fn = "none"
    /\ Len(segments) < totalSegments
    /\ LET i == Len(segments) + 1
           previousContext == IF i = 1 THEN <<>> ELSE segments[i - 1].text
       IN  GenerateSegmentCall(journey, i, totalSegments, outline[i], previousContext)
    /\ UNCHANGED <<plannerVars, orchVars, sized>>

SegmentArrives ==
    /\ call.fn = "generateSegment"
    /\ \E http \in RunSegmentExchanges : GenerateSegmentResume(http)
    /\ UNCHANGED <<plannerVars, orchVars, sized>>

\* a generated Segment is appended and handed to the consumer, text only
TakeSegment ==
    /\ phase = "GENERATING"
    /\ result.fn = "generateSegment"
    /\ result.outcome.kind = "return"
    /\ segments' = Append(segments, result.outcome.val)
    /\ observed' = Append(observed, result.outcome.val.index)
    /\ attempts' = 0
    /\ result' = NoResult
    /\ response' = NoResponse
    /\ UNCHANGED <<plannerVars, journey, phase, totalSegments, outline, synthesizing,
                   call, requests, fetches, sized>>

\* a failed text request is made again, up to MaxRetries times
RetrySegment ==
    /\ phase = "GENERATING"
    /\ result.fn = "generateSegment"
    /\ result.outcome.kind = "throw"
    /\ attempts < MaxRetries
    /\ attempts' = attempts + 1
    /\ result' = NoResult
    /\ response' = NoResponse
    /\ UNCHANGED <<plannerVars, journey, phase, totalSegments, outline, segments,
                   observed, synthesizing, call, requests, fetches, sized>>

\* the failed segment gets the generic text and the run goes on
SubstituteSegment ==
    /\ phase = "GENERATING"
    /\ result.fn = "generateSegment"
    /\ result.outcome.kind = "throw"
    /\ LET i == Len(segments) + 1
       IN  /\ segments' = Append(segments, [index |-> i, text |-> FALLBACK_OUTLINE,
                                            audioBuffer |-> NoAudio])
           /\ observed' = Append(observed, i)
    /\ attempts' = 0
    /\ result' = NoResult
    /\ response' = NoResponse
    /\ UNCHANGED <<plannerVars, journey, phase, totalSegments, outline, synthesizing,
                   call, requests, fetches, sized>>

\* the run ends; the segments completed so far stay with the consumer
Abort ==
    /\ phase' = "ABORTED"
    /\ synthesizing' = {}
    /\ call' = NoCall
    /\ result' = NoResult
    /\ response' = NoResponse
    /\ UNCHANGED <<plannerVars, journey, totalSegments, outline, segments, observed,
                   attempts, requests, fetches, sized>>

AbortOnSegment ==
    /\ phase = "GENERATING"
    /\ result.fn = "generateSegment"
    /\ result.outcome.kind = "throw"
    /\ Abort

\* audio synthesis of a segment that has its text, beside the next text request
StartSynthesis(i) ==
    /\ phase = "GENERATING"
    /\ i \notin synthesizing
    /\ ~segments[i].audioBuffer.present
    /\ Cardinality(synthesizing) < MaxSynthInFlight
    /\ synthesizing' = synthesizing \cup {i}
    /\ UNCHANGED <<plannerVars, journey, phase, totalSegments, outline, segments,
                   observed, attempts, genVars, sized>>

\* generateSegmentAudio returns: the buffer is attached to its segment
FinishSynthesis(i) ==
    /\ phase = "GENERATING"
    /\ i \in synthesizing
    /\ LET audio == generateSegmentAudio(segments[i].text, TRUE)
       IN  /\ audio.kind = "return"
           /\ segments' = [segments EXCEPT ![i].audioBuffer = audio.val]
    /\ synthesizing' = synthesizing \ {i}
    /\ UNCHANGED <<plannerVars, journey, phase, totalSegments, outline, observed,
                   attempts, genVars, sized>>

\* generateSegmentAudio throws: the synthesis is left to be started again
FailSynthesis(i) ==
    /\ phase = "GENERATING"
    /\ i \in synthesizing
    /\ generateSegmentAudio(segments[i].text, FALSE).kind = "throw"
    /\ synthesizing' = synthesizing \ {i}
    /\ UNCHANGED <<plannerVars, journey, phase, totalSegments, outline, segments,
                   observed, attempts, genVars, sized>>

\* generateSegmentAudio throws and the run ends
AbortOnAudio(i) ==
    /\ phase = "GENERATING"
    /\ i \in synthesizing
    /\ generateSegmentAudio(segments[i].text, FALSE).kind = "throw"
    /\ Abort

Synthesis ==
    \E i \in 1..Len(segments) :
        StartSynthesis(i) \/ FinishSynthesis(i) \/ FailSynthesis(i) \/ AbortOnAudio(i)

\* every segment has its text and its audio
Complete ==
    /\ phase = "GENERATING"
    /\ Len(segments) = totalSegments
    /\ \A i \in 1..Len(segments) : segments[i].audioBuffer.present
    /\ phase' = "COMPLETE"
    /\ UNCHANGED <<plannerVars, journey, totalSegments, outline, segments, observed,
                   synthesizing, attempts, genVars, sized>>

Next ==
    \/ EditFormRun
    \/ HandleCalculateBegin
    \/ HandleCalculateResumeRun
    \/ StartOutline
    \/ OutlineArrives
    \/ TakeOutline
    \/ StartSegment
    \/ SegmentArrives
    \/ TakeSegment
    \/ RetrySegment
    \/ SubstituteSegment
    \/ AbortOnSegment
    \/ Synthesis
    \/ Complete

Spec == Init /\ [][Next]_vars

-----------------------------------------------------------------------------
(* Claims *)

\* C1: for every journey duration D >= 0, calculateTotalSegments(D) is
\* max(1, ceil(D/60)): at least 1, the least count of 60-second segments that
\* covers D, 1 for D up to 60 seconds and 4 for D = 185 seconds.
C1_SegmentCountIsCeil ==
    sized.present =>
        LET d == sized.durationTicks
            n == sized.segments
        IN  /\ n >= 1
            /\ n * 60 * TicksPerSec >= d
            /\ (n > 1 => (n - 1) * 60 * TicksPerSec < d)
            /\ (d <= 60 * TicksPerSec => n = 1)
            /\ (d = 185 * TicksPerSec => n = 4)

C1_Witness ==
    /\ sized.present
    /\ sized.durationTicks = 185 * TicksPerSec
    /\ sized.segments = 4

\* C8: the route planner confirms no journey longer than 4 hours: a journey
\* handed to onRouteFound lasts at most 14400 seconds and has at most 240
\* segments, and the too-long error leaves no journey confirmed.
C8_PlannerEnforcesCap ==
    /\ journey.present =>
        /\ journey.durationSeconds <= 14400 * TicksPerSec
        /\ totalSegments <= 240
    /\ error = "Sorry, this journey is too long. Please select a route under 4 hours."
        => (~journey.present /\ phase = "IDLE")

C8_Witness ==
    /\ journey.present
    /\ journey.durationSeconds = 14400 * TicksPerSec
    /\ totalSegments = 240
\* the outline call has returned or thrown
OutlineDone == result.fn = "generateStoryOutline"

\* the text JSON.parse is given: the part of the trimmed text from its first
\* "[" to its last "]", or all of it when it has no such part
OutlineCandidate(text) ==
    LET t == trim(text)
    IN  IF MatchBrackets(t).matched THEN MatchBrackets(t).str ELSE t

\* the request failed, or gave no text, or text that holds no JSON, or JSON
\* that is no non-empty array
OutlineFailed(r) ==
    \/ r.kind = "throw"
    \/ r.val.kind # "string"
    \/ trim(r.val.val) = <<>>
    \/ LET parsed == JSONParse(OutlineCandidate(r.val.val))
       IN  \/ parsed.kind = "throw"
           \/ ~IsArray(parsed.val)
           \/ parsed.val.val = <<>>

\* the array the model's text holds
ModelOutline(r) == JSONParse(OutlineCandidate(r.val.val)).val.val

\* C2: whatever the chat-completion request gives, the outline returned for
\* N >= 1 requested segments has exactly N elements.
C2_OutlineLengthIsN ==
    OutlineDone =>
        /\ result.outcome.kind = "return"
        /\ Len(result.outcome.val) = result.args.totalSegments

C2_Witness ==
    /\ OutlineDone
    /\ ~OutlineFailed(response)
    /\ Len(ModelOutline(response)) = 4
    /\ result.args.totalSegments = 2
    /\ Len(result.outcome.val) = 2

\* C3: generateStoryOutline never throws: when the request fails or gives no
\* text, text that holds no JSON, or JSON that is no non-empty array, it
\* returns N copies of the fallback string.
C3_OutlineFallsBack ==
    OutlineDone =>
        /\ result.outcome.kind = "return"
        /\ OutlineFailed(response) =>
            /\ Len(result.outcome.val) = result.args.totalSegments
            /\ \A i \in 1..Len(result.outcome.val) :
                result.outcome.val[i] = JSString(FALLBACK_OUTLINE)

C3_Witness ==
    /\ OutlineDone
    /\ response.kind = "return"
    /\ response.val = JSString(<<"a", " ", "b">>)
    /\ result.args.totalSegments = 3
    /\ result.outcome = Return(<<JSString(FALLBACK_OUTLINE), JSString(FALLBACK_OUTLINE),
                                 JSString(FALLBACK_OUTLINE)>>)

\* C7: when the model's array has k elements and N were requested, element
\* i of the result is the model's element i for i <= k and the padding
\* string for k < i <= N: padded at the end, cut after N, or unchanged.
C7_PadAndTruncate ==
    (OutlineDone /\ ~OutlineFailed(response)) =>
        LET model == ModelOutline(response)
            out == result.outcome
            n == result.args.totalSegments
        IN  /\ out.kind = "return"
            /\ Len(out.val) = n
            /\ \A i \in 1..n :
                out.val[i] = IF i <= Len(model) THEN model[i] ELSE JSString(PAD_OUTLINE)

C7_Witness ==
    /\ OutlineDone
    /\ ~OutlineFailed(response)
    /\ ModelOutline(response) = <<JSString(<<"b">>), JSString(<<"a">>)>>
    /\ result.outcome = Return(<<JSString(<<"b">>), JSString(<<"a">>), JSString(PAD_OUTLINE)>>)

\* C10: every element of the outline generateStoryOutline returns is a
\* string.
C10_OutlineOfStrings ==
    OutlineDone =>
        /\ result.outcome.kind = "return"
        /\ \A i \in 1..Len(result.outcome.val) : IsString(result.outcome.val[i])

\* the segment call has returned or thrown
SegmentDone == result.fn = "generateSegment"

\* t is s without the blanks at its ends
IsTrimOf(t, s) ==
    /\ Len(t) > 0
    /\ ~IsWhitespace(t[1])
    /\ ~IsWhitespace(t[Len(t)])
    /\ \E a \in 0..(Len(s) - Len(t)) :
        /\ SubSeq(s, a + 1, a + Len(t)) = t
        /\ \A i \in 1..a : IsWhitespace(s[i])
        /\ \A i \in (a + Len(t) + 1)..Len(s) : IsWhitespace(s[i])

\* C4: generateSegment throws whenever the request fails or gives no text
\* or only blanks; the text of a Segment it returns is the non-empty text of
\* the response without the blanks around it, never a placeholder.
C4_SegmentFailsObservably ==
    SegmentDone =>
        /\ (\/ response.kind = "throw"
            \/ response.val.kind # "string"
            \/ \A i \in 1..Len(response.val.val) : IsWhitespace(response.val.val[i]))
                => result.outcome.kind = "throw"
        /\ result.outcome.kind = "return" =>
            /\ response.kind = "return"
            /\ response.val.kind = "string"
            /\ IsTrimOf(result.outcome.val.text, response.val.val)

C4_Witness ==
    /\ SegmentDone
    /\ response.kind = "return"
    /\ response.val = JSString(<<" ", " ">>)
    /\ result.outcome.kind = "throw"

\* C5: the request of generateSegment for a segment index > 1 holds a
\* context block with exactly the last min(1500, |P|) characters of the prior
\* narration P; the request for segment 1 holds no context block.
C5_ContextWindow ==
    \A e \in requests :
        e.by.fn = "generateSegment" =>
            LET P == e.by.previousContext
                block == e.request.messages[1].content.contextPrompt
                len == IF Len(P) < 1500 THEN Len(P) ELSE 1500
            IN  IF e.by.segmentIndex > 1
                THEN /\ block.present
                     /\ Len(block.context) = len
                     /\ \A j \in 1..len : block.context[j] = P[Len(P) - len + j]
                ELSE /\ ~block.present
                     /\ block.context = <<>>

C5_Witness ==
    \E e \in requests :
        /\ e.by.fn = "generateSegment"
        /\ e.by.segmentIndex > 1
        /\ Len(e.by.previousContext) = 2000
        /\ Len(e.request.messages[1].content.contextPrompt.context) = 1500
        /\ e.request.messages[1].content.contextPrompt.context[1] = e.by.previousContext[501]

\* the style selectors with an instruction of their own
OwnStyles == {"NOIR", "CHILDREN", "HISTORICAL", "FANTASY"}

\* C9: the style instruction of a request depends on the style selector
\* alone: two requests with the same selector carry the same instruction,
\* whichever generator sent them and whatever went before; NOIR, CHILDREN,
\* HISTORICAL and FANTASY each have an instruction no other selector has,
\* and all other selectors share one.
C9_StyleInstructionFixed ==
    \A e1 \in requests, e2 \in requests :
        LET s1 == e1.by.route.storyStyle
            s2 == e2.by.route.storyStyle
            i1 == e1.request.messages[1].content.styleInstruction
            i2 == e2.request.messages[1].content.styleInstruction
        IN  /\ s1 = s2 => i1 = i2
            /\ (s1 \notin OwnStyles /\ s2 \notin OwnStyles) => i1 = i2
            /\ (s1 # s2 /\ (s1 \in OwnStyles \/ s2 \in OwnStyles)) => i1 # i2

C9_Witness ==
    \E e1 \in requests, e2 \in requests, e3 \in requests :
        /\ e1.by.fn = "generateStoryOutline"
        /\ e2.by.fn = "generateSegment"
        /\ e1.by.route.storyStyle = "FANTASY"
        /\ e2.by.route.storyStyle = "FANTASY"
        /\ e3.by.route.storyStyle = "WESTERN"
        /\ e1.request.messages[1].content.styleInstruction
            = e2.request.messages[1].content.styleInstruction

RECURSIVE MatchingClose(_, _, _)
MatchingClose(s, i, depth) ==
    IF i > Len(s) THEN 0
    ELSE IF s[i] = "[" THEN MatchingClose(s, i + 1, depth + 1)
    ELSE IF s[i] = "]"
    THEN IF depth = 1 THEN i ELSE MatchingClose(s, i + 1, depth - 1)
    ELSE MatchingClose(s, i + 1, depth)

\* the part of the text from its first "[" to the "]" matching it, or
\* nothing when there is none
FirstArrayText(text) ==
    LET opens == {i \in 1..Len(text) : text[i] = "["}
    IN  IF opens = {} THEN <<>>
        ELSE LET first == CHOOSE i \in opens : \A j \in opens : i <= j
                 close == MatchingClose(text, first + 1, 1)
             IN  IF close = 0 THEN <<>> ELSE SubSeq(text, first, close)

\* the text holds, from its first "[" to the matching "]", a JSON array of
\* one or more strings
HoldsArrayOfStrings(r) ==
    /\ r.kind = "return"
    /\ r.val.kind = "string"
    /\ LET parsed == JSONParse(FirstArrayText(r.val.val))
       IN  /\ parsed.kind = "return"
           /\ IsArray(parsed.val)
           /\ parsed.val.val # <<>>
           /\ \A i \in 1..Len(parsed.val.val) : IsString(parsed.val.val[i])

\* C11: when the response text holds a JSON array of strings inside other
\* text, the outline is built from the array between the first "[" and its
\* matching "]", also when more brackets follow the array.
C11_FirstArrayExtracted ==
    (OutlineDone /\ HoldsArrayOfStrings(response)) =>
        LET array == JSONParse(FirstArrayText(response.val.val)).val.val
            out == result.outcome
            n == result.args.totalSegments
        IN  /\ out.kind = "return"
            /\ Len(out.val) = n
            /\ \A i \in 1..n :
                out.val[i] = IF i <= Len(array) THEN array[i] ELSE JSString(PAD_OUTLINE)


\* the model's array is shorter than the outline asked for, so the outline
\* returned ends with padded positions
OutlinePadded ==
    /\ OutlineDone
    /\ ~OutlineFailed(response)
    /\ Len(ModelOutline(response)) < result.args.totalSegments

\* the positions of the returned outline that the padding loop filled
PaddedPositions == (Len(ModelOutline(response)) + 1)..result.args.totalSegments

\* C12 as stated: a padded position holds the same string as a position of
\* the all-placeholder fallback outline.
C12_PadIsFallbackString ==
    OutlinePadded =>
        \A i \in PaddedPositions :
            result.outcome.val[i] = JSString(FALLBACK_OUTLINE)

\* C12: every padded position holds one fixed string and every position of
\* the fallback outline holds one fixed string, and the two strings differ,
\* so a padded position is told apart from a fallback position.
C12_PadDiffersFromFallback ==
    /\ OutlinePadded =>
        \A i \in PaddedPositions :
            /\ result.outcome.val[i] = JSString(PAD_OUTLINE)
            /\ result.outcome.val[i] # JSString(FALLBACK_OUTLINE)
    /\ (OutlineDone /\ OutlineFailed(response)) =>
        \A i \in 1..result.args.totalSegments :
            /\ result.outcome.val[i] = JSString(FALLBACK_OUTLINE)
            /\ result.outcome.val[i] # JSString(PAD_OUTLINE)

C12_Witness ==
    /\ OutlinePadded
    /\ result.args.totalSegments = 3
    /\ Len(ModelOutline(response)) = 1
    /\ result.outcome.val[2] = JSString(PAD_OUTLINE)
    /\ result.outcome.val[3] = JSString(PAD_OUTLINE)


\* the prompt a generator call builds from its own arguments
PromptOf(c) ==
    IF c.fn = "generateStoryOutline"
    THEN OutlinePrompt(c.route, c.totalSegments)
    ELSE SegmentPrompt(c.route, c.segmentIndex, c.totalSegmentsEstimate,
                       c.segmentOutline, c.previousContext)

\* C13: a call of generateStoryOutline or generateSegment sends one
\* chat-completion request, whose message list is one message of role "user"
\* holding the prompt built from the call's own arguments; a call whose
\* request failed has still sent one request only.
C13_OneUserMessagePerCall ==
    /\ \A e \in requests :
        /\ Len(e.request.messages) = 1
        /\ e.request.messages[1].role = "user"
        /\ e.request.messages[1].content = PromptOf(e.by)
    /\ \A e \in requests, f \in requests : e.by = f.by => e.request = f.request
    /\ call.fn # "none" => (fetches = 1 /\ \E e \in requests : e.by = call)
    /\ result.fn # "none" => fetches = 1

C13_Witness ==
    /\ call.fn = "none"
    /\ result.fn = "generateSegment"
    /\ result.outcome.kind = "throw"
    /\ result.args.segmentIndex > 1
    /\ result.args.previousContext # <<>>
    /\ fetches = 1
    /\ \E e \in requests : e.by.fn = "generateStoryOutline"
    /\ \E e \in requests : e.by = result.args

====
